---- MODULE Spec2Model ----
(***************************************************************************)
(* Model of linksnap: the backend's CORS origin policy                     *)
(* (createCorsMiddleware), the backend's Cloudinary configuration guard    *)
(* (ensureConfigured) and the frontend's upload form (Home / onSubmit).    *)
(*                                                                         *)
(* JavaScript strings are modelled as sequences of one-character strings,  *)
(* so that split, trim, escaping and regular-expression matching are       *)
(* computed character by character as the code computes them.              *)
(***************************************************************************)
EXTENDS Integers, Sequences, FiniteSets, TLC

VARIABLES corsRaw, corsPolicy, corsOptions, allowed, reqPhase, req, decision,
          resp

corsVars ==
  <<corsRaw, corsPolicy, corsOptions, allowed, reqPhase, req, decision, resp>>

\* backend/src/cloudinary.js and the process that loads it.
VARIABLES env, configured, cloudConfig, configApplied, lastError, ensureCalls,
          phase, handled

storageVars ==
  <<env, configured, cloudConfig, configApplied, lastError, ensureCalls,
    phase, handled>>

\* The upload form, the component Home.
VARIABLES file, isLoading, error, result, calls, settled, cleared

clientVars == <<file, isLoading, error, result, calls, settled, cleared>>

vars == <<corsVars, storageVars, clientVars>>

(***************************************************************************)
(* Bounds of the model.                                                    *)
(***************************************************************************)
MaxRawLen == 3
MaxOriginLen == 3
MaxCalls == 3
MaxUploads == 2
MaxInflight == 2

(***************************************************************************)
(* Values.                                                                 *)
(***************************************************************************)
\* JavaScript's undefined (an unset environment variable, a missing header).
\* It is a one-element sequence whose element is not a single character, so
\* it differs from every string.
Absent == <<"undefined">>
Null == <<"null">>

Star == <<"*">>

RawAlphabet == {"a", ".", "*", "+", ",", " "}
OriginAlphabet == {"a", "b", "."}

RECURSIVE StringsUpTo(_, _)
StringsUpTo(alphabet, n) ==
  IF n = 0 THEN {<<>>}
  ELSE LET shorter == StringsUpTo(alphabet, n - 1)
       IN shorter \cup {Append(s, c) : s \in shorter, c \in alphabet}

\* "https://a.com,https://*.b.com"
ExampleConfig ==
  <<"h","t","t","p","s",":","/","/","a",".","c","o","m",",",
    "h","t","t","p","s",":","/","/","*",".","b",".","c","o","m">>
\* "https://a.com"
OriginA == <<"h","t","t","p","s",":","/","/","a",".","c","o","m">>
\* "https://x.b.com"
OriginXB == <<"h","t","t","p","s",":","/","/","x",".","b",".","c","o","m">>
\* "https://a.com.evil.com"
OriginEvil ==
  <<"h","t","t","p","s",":","/","/","a",".","c","o","m",
    ".","e","v","i","l",".","c","o","m">>
\* "http://a.com"
OriginHttp == <<"h","t","t","p",":","/","/","a",".","c","o","m">>
\* "https://xb.com"
OriginNoDot == <<"h","t","t","p","s",":","/","/","x","b",".","c","o","m">>

\* The values process.env.CORS_ORIGIN can have when the process starts.
RawConfigs == {Absent, ExampleConfig} \cup StringsUpTo(RawAlphabet, MaxRawLen)

\* The values of a request's Origin header (req.headers.origin).
Origins ==
  {Absent, OriginA, OriginXB, OriginEvil, OriginHttp, OriginNoDot}
    \cup StringsUpTo(OriginAlphabet, MaxOriginLen)

Methods == {"GET", "POST", "OPTIONS"}

(***************************************************************************)
(* String helpers of the JavaScript runtime used by the CORS module.       *)
(***************************************************************************)
\* Characters String.prototype.trim removes.
WhiteSpace == {" ", "\t", "\n", "\r"}

\* Characters the regular expression atom "." does not match.
LineTerminators == {"\n", "\r"}

RECURSIVE TrimLeft(_)
TrimLeft(s) ==
  IF s # <<>> /\ Head(s) \in WhiteSpace THEN TrimLeft(Tail(s)) ELSE s

RECURSIVE TrimRight(_)
TrimRight(s) ==
  IF s # <<>> /\ s[Len(s)] \in WhiteSpace
  THEN TrimRight(SubSeq(s, 1, Len(s) - 1))
  ELSE s

Trim(s) == TrimRight(TrimLeft(s))

\* s.split(","): the pieces between commas, empty pieces included.
RECURSIVE SplitComma(_, _)
SplitComma(s, cur) ==
  IF s = <<>> THEN <<cur>>
  ELSE IF Head(s) = "," THEN <<cur>> \o SplitComma(Tail(s), <<>>)
  ELSE SplitComma(Tail(s), Append(cur, Head(s)))

\* The tokens left as they were split, whitespace included.
MapTrimNone(ts) == ts

RECURSIVE MapTrim(_)
MapTrim(ts) ==
  IF ts = <<>> THEN <<>> ELSE <<Trim(Head(ts))>> \o MapTrim(Tail(ts))

\* .filter(Boolean) on strings: the empty string is falsy and is dropped.
RECURSIVE FilterNonEmpty(_)
FilterNonEmpty(ts) ==
  IF ts = <<>> THEN <<>>
  ELSE IF Head(ts) = <<>> THEN FilterNonEmpty(Tail(ts))
  ELSE <<Head(ts)>> \o FilterNonEmpty(Tail(ts))

Includes(s, c) == \E i \in 1..Len(s) : s[i] = c

ToSetOf(seq) == {seq[i] : i \in 1..Len(seq)}

(***************************************************************************)
(* escapeRegExp, toWildcardRegExp.                                         *)
(***************************************************************************)
\* The character class [.*+?^${}()|[\]\\].
RegExpSpecial ==
  {".", "*", "+", "?", "^", "$", "{", "}", "(", ")", "|", "[", "]", "\\"}

RECURSIVE escapeRegExp(_)
escapeRegExp(value) ==
  IF value = <<>> THEN <<>>
  ELSE IF Head(value) \in RegExpSpecial
       THEN <<"\\", Head(value)>> \o escapeRegExp(Tail(value))
       ELSE <<Head(value)>> \o escapeRegExp(Tail(value))

\* .replace(/\\\*/g, ".*"): leftmost, non-overlapping occurrences of a
\* backslash followed by a star.
RECURSIVE ReplaceEscapedStar(_)
ReplaceEscapedStar(s) ==
  IF s = <<>> THEN <<>>
  ELSE IF Len(s) >= 2 /\ s[1] = "\\" /\ s[2] = "*"
       THEN <<".", "*">> \o ReplaceEscapedStar(SubSeq(s, 3, Len(s)))
       ELSE <<Head(s)>> \o ReplaceEscapedStar(Tail(s))

\* toWildcardRegExp without the anchors: the expression may match a part of
\* the origin.
toWildcardRegExpUnanchored(pattern) ==
  ReplaceEscapedStar(escapeRegExp(pattern))

\* The source text of the compiled expression, `^${escaped}$`.
toWildcardRegExp(pattern) ==
  <<"^">> \o ReplaceEscapedStar(escapeRegExp(pattern)) \o <<"$">>

(***************************************************************************)
(* RegExp.prototype.test for the expressions the module can build: atoms   *)
(* are an escaped character, ".", the assertions "^" and "$", or a plain   *)
(* character; an atom may be followed by the quantifier "*", "+" or "?".   *)
(***************************************************************************)
Quantifiers == {"*", "+", "?"}

AtomWidth(re, i) == IF re[i] = "\\" /\ i < Len(re) THEN 2 ELSE 1

AtomMatches(re, i, c) ==
  IF re[i] = "\\" /\ i < Len(re) THEN c = re[i + 1]
  ELSE IF re[i] = "." THEN c \notin LineTerminators
  ELSE c = re[i]

\* s[j .. j+k-1] exists and every character of it matches the atom at i.
RunMatches(re, i, s, j, k) ==
  /\ j + k - 1 <= Len(s)
  /\ \A m \in j..(j + k - 1) : AtomMatches(re, i, s[m])

RECURSIVE MatchAt(_, _, _, _)
MatchAt(re, i, s, j) ==
  IF i > Len(re) THEN TRUE
  ELSE IF re[i] = "^" THEN j = 1 /\ MatchAt(re, i + 1, s, j)
  ELSE IF re[i] = "$" THEN j = Len(s) + 1 /\ MatchAt(re, i + 1, s, j)
  ELSE
    LET w == AtomWidth(re, i)
        q == IF i + w <= Len(re) /\ re[i + w] \in Quantifiers
             THEN re[i + w] ELSE "1"
        lo == IF q \in {"*", "?"} THEN 0 ELSE 1
        hi == IF q \in {"*", "+"} THEN Len(s) + 1 - j
              ELSE IF Len(s) + 1 - j < 1 THEN Len(s) + 1 - j ELSE 1
        nxt == IF q = "1" THEN i + w ELSE i + w + 1
    IN \E k \in lo..hi :
         RunMatches(re, i, s, j, k) /\ MatchAt(re, nxt, s, j + k)

\* re.test(s): the expression matches somewhere in s.
RegExpTest(re, s) == \E j \in 1..(Len(s) + 1) : MatchAt(re, 1, s, j)

(***************************************************************************)
(* parseAllowedOrigins.                                                    *)
(***************************************************************************)
Tokens(raw) == FilterNonEmpty(MapTrim(SplitComma(raw, <<>>)))

RECURSIVE CompileWildcards(_)
CompileWildcards(tokens) ==
  IF tokens = <<>> THEN <<>>
  ELSE IF Includes(Head(tokens), "*")
       THEN <<toWildcardRegExp(Head(tokens))>> \o CompileWildcards(Tail(tokens))
       ELSE CompileWildcards(Tail(tokens))

parseAllowedOrigins(raw) ==
  LET tokens == Tokens(raw)
  IN [exact |-> {tokens[i] : i \in {k \in 1..Len(tokens) :
                                      ~Includes(tokens[k], "*")}},
      wildcards |-> CompileWildcards(tokens)]

NoAllowed == [exact |-> {}, wildcards |-> <<>>]

(***************************************************************************)
(* createCorsMiddleware.                                                   *)
(***************************************************************************)
\* The open-policy test without the falsy case of the empty string.
IsOpenPolicyNoEmpty(raw) == raw = Absent \/ raw = Star

\* !raw || raw === "*"
IsOpenPolicy(raw) == raw = Absent \/ raw = <<>> \/ raw = Star

\* The options shared by both cors({...}) calls.
CorsMethods == <<"GET", "POST", "OPTIONS">>
CorsAllowedHeaders == <<"Content-Type">>
CorsMaxAge == 86400
CorsOptionsSuccessStatus == 204

OpenOptions ==
  [origin |-> "*", methods |-> CorsMethods,
   allowedHeaders |-> CorsAllowedHeaders, maxAge |-> CorsMaxAge,
   optionsSuccessStatus |-> CorsOptionsSuccessStatus]

\* The restricted policy's options with another preflight status and
\* cache time than the open policy's.
RestrictedOptionsDiverging ==
  [origin |-> "function", methods |-> CorsMethods,
   allowedHeaders |-> CorsAllowedHeaders, maxAge |-> 600,
   optionsSuccessStatus |-> 200]

RestrictedOptions ==
  [origin |-> "function", methods |-> CorsMethods,
   allowedHeaders |-> CorsAllowedHeaders, maxAge |-> CorsMaxAge,
   optionsSuccessStatus |-> CorsOptionsSuccessStatus]

NoOptions ==
  [origin |-> "none", methods |-> <<>>, allowedHeaders |-> <<>>,
   maxAge |-> 0, optionsSuccessStatus |-> 0]

\* isAllowed with a prefix test in place of the exact-set lookup.
isAllowedPrefix(al, origin) ==
  IF origin = Absent \/ origin = <<>> THEN TRUE
  ELSE IF \E t \in al.exact :
            Len(t) <= Len(origin) /\ SubSeq(origin, 1, Len(t)) = t THEN TRUE
  ELSE \E i \in 1..Len(al.wildcards) : RegExpTest(al.wildcards[i], origin)

\* isAllowed without the early return for a request that has no Origin.
isAllowedNoOriginCheck(al, origin) ==
  IF origin \in al.exact THEN TRUE
  ELSE \E i \in 1..Len(al.wildcards) : RegExpTest(al.wildcards[i], origin)

\* const isAllowed = (origin) => ...
isAllowed(al, origin) ==
  IF origin = Absent \/ origin = <<>> THEN TRUE
  ELSE IF origin \in al.exact THEN TRUE
  ELSE \E i \in 1..Len(al.wildcards) : RegExpTest(al.wildcards[i], origin)

\* The origin callback reporting a denied origin as an error.
originCallbackErrorOnDeny(al, origin) ==
  IF isAllowed(al, origin)
  THEN [threw |-> FALSE, err |-> Null, allow |-> TRUE]
  ELSE [threw |-> FALSE, err |-> <<"Error">>, allow |-> FALSE]

\* origin(origin, cb) { return cb(null, isAllowed(origin)); }
originCallback(al, origin) ==
  [threw |-> FALSE, err |-> Null, allow |-> isAllowed(al, origin)]

NoDecision == [threw |-> FALSE, err |-> Null, allow |-> FALSE]

NoReq == [method |-> "none", origin |-> Absent]

\* What the cors middleware answers: the preflight of an allowed request is
\* ended with the configured status and headers; a request that is not
\* allowed gets no CORS header and is passed on.
NoResp ==
  [ended |-> FALSE, status |-> 0, allowMethods |-> <<>>,
   allowHeaders |-> <<>>, maxAge |-> 0, corsHeaders |-> FALSE]

CorsResponse(opts, method, d) ==
  IF d.threw \/ d.err # Null \/ ~d.allow THEN NoResp
  ELSE IF method = "OPTIONS"
       THEN [ended |-> TRUE, status |-> opts.optionsSuccessStatus,
             allowMethods |-> opts.methods,
             allowHeaders |-> opts.allowedHeaders,
             maxAge |-> opts.maxAge, corsHeaders |-> TRUE]
       ELSE [NoResp EXCEPT !.corsHeaders = TRUE]

(***************************************************************************)
(* The upload form: JSON values, extractErrorMessage.                      *)
(***************************************************************************)
\* A JavaScript value that is not an object: its typeof and its text.
Scalar(t, v) == [t |-> t, v |-> v]

Undef == Scalar("undefined", "")
NullValue == Scalar("null", "")
Num == Scalar("number", "1")
Str(v) == Scalar("string", v)

\* The value of a body's "error" property: a scalar, or an object with a
\* "message" property.
ErrScalar(x) == [t |-> x.t, v |-> x.v, message |-> Undef]
ErrObject(m) == [t |-> "object", v |-> "", message |-> m]

\* What response.json().catch(() => null) yields: null, a primitive, an
\* array, or an object with these properties.
Body(t, e, m, p, q, d, x) ==
  [t |-> t, error |-> e, message |-> m, publicFileUrl |-> p,
   qrCodeUrl |-> q, downloadFileUrl |-> d, qrTargetUrl |-> x[1],
   originalFileName |-> x[2], mimeType |-> x[3]]

NoExtras == <<Undef, Undef, Undef>>
SomeExtras == <<Str("T"), Num, Str("image/png")>>

NonObject(t) ==
  Body(t, ErrScalar(Undef), Undef, Undef, Undef, Undef, NoExtras)

ErrorValues ==
  {ErrScalar(Undef), ErrScalar(NullValue), ErrScalar(Num),
   ErrScalar(Str("E")), ErrObject(Undef), ErrObject(Num),
   ErrObject(Str("EM"))}

MessageValues == {Undef, Num, Str("M")}

UrlValues(v) == {Undef, Num, Str(v)}

\* Bodies an upload can be answered with: no JSON at all, JSON that is not
\* an object, error bodies, result bodies, and bodies carrying both.
DataValues ==
  {NonObject("null"), NonObject("string"), NonObject("array")}
    \cup {Body("object", e, m, Undef, Undef, Undef, NoExtras) :
            e \in ErrorValues, m \in MessageValues}
    \cup {Body("object", ErrScalar(Undef), Undef, pq[1], pq[2], dx[1], dx[2]) :
            pq \in UrlValues("P") \X UrlValues("Q"),
            dx \in {<<Undef, NoExtras>>, <<Str("D"), SomeExtras>>}}
    \cup {Body("object", ErrScalar(Str("E")), Str("M"), Str("P"), Str("Q"),
               Undef, NoExtras)}

Statuses == {200, 201, 400, 500}

\* response.ok
Ok(status) == status >= 200 /\ status <= 299

\* data && typeof data === "object"
IsObject(data) == data.t \in {"object", "array"}

MissingFileMessage == <<"Choisis un fichier (image, PDF ou TXT).">>
UnexpectedMessage == <<"Réponse inattendue du serveur.">>
NetworkMessage == <<"Erreur réseau.">>

\* `Erreur upload (${status})`
GenericMessage(status) == <<"Erreur upload (", ToString(status), ")">>

\* extractErrorMessage preferring the top-level message to error.message.
extractErrorMessageSwapped(data, status) ==
  IF IsObject(data)
  THEN IF data.error.t = "string" THEN <<data.error.v>>
       ELSE IF data.message.t = "string" THEN <<data.message.v>>
       ELSE IF data.error.message.t = "string" THEN <<data.error.message.v>>
       ELSE GenericMessage(status)
  ELSE GenericMessage(status)

\* function extractErrorMessage(data: unknown, status: number)
extractErrorMessage(data, status) ==
  IF IsObject(data)
  THEN IF data.error.t = "string" THEN <<data.error.v>>
       ELSE IF data.error.message.t = "string" THEN <<data.error.message.v>>
       ELSE IF data.message.t = "string" THEN <<data.message.v>>
       ELSE GenericMessage(status)
  ELSE GenericMessage(status)

(***************************************************************************)
(* The upload form: state and handlers.                                    *)
(***************************************************************************)
NoFile == "null"
Files == {"a.png"}

NoResult ==
  [present |-> FALSE, publicFileUrl |-> Undef, qrCodeUrl |-> Undef,
   downloadFileUrl |-> Undef, qrTargetUrl |-> Undef,
   originalFileName |-> Undef, mimeType |-> Undef]

\* typeof x === "string" ? x : undefined
StringOrUndef(x) == IF x.t = "string" THEN x ELSE Undef

\* const nextResult: UploadResponse = {...}
nextResult(data) ==
  [present |-> TRUE, publicFileUrl |-> data.publicFileUrl,
   qrCodeUrl |-> data.qrCodeUrl,
   downloadFileUrl |-> StringOrUndef(data.downloadFileUrl),
   qrTargetUrl |-> StringOrUndef(data.qrTargetUrl),
   originalFileName |-> StringOrUndef(data.originalFileName),
   mimeType |-> StringOrUndef(data.mimeType)]

\* What fetch can reject with: an Error, or a value that is no Error.
Rejections ==
  {[isError |-> TRUE, message |-> "Failed to fetch"],
   [isError |-> FALSE, message |-> ""]}

\* cleared: reset or onPickFile has run, or nothing has yet, and onSubmit
\* has not begun since.

\* The response the step that led to the state has processed, if that step
\* completed an onSubmit.
NoSettled ==
  [kind |-> "none", status |-> 0, data |-> NonObject("null"),
   reason |-> [isError |-> FALSE, message |-> ""]]

\* The part of onSubmit that follows the parsing of the body, without the
\* early return of the non-2xx branch.
afterJsonFallsThrough(data, status) ==
  IF ~IsObject(data)
  THEN [error |-> UnexpectedMessage, setResult |-> FALSE]
  ELSE IF data.publicFileUrl.t # "string" \/ data.qrCodeUrl.t # "string"
  THEN [error |-> UnexpectedMessage, setResult |-> FALSE]
  ELSE [error |-> IF Ok(status) THEN Null
                  ELSE extractErrorMessage(data, status),
        setResult |-> TRUE]

\* The part of onSubmit that follows the parsing of the body: the error it
\* sets (Null: none) and whether it sets the result.
afterJson(data, status) ==
  IF ~Ok(status)
  THEN [error |-> extractErrorMessage(data, status), setResult |-> FALSE]
  ELSE IF data.t = "null" \/ ~IsObject(data)
  THEN [error |-> UnexpectedMessage, setResult |-> FALSE]
  ELSE IF data.publicFileUrl.t # "string" \/ data.qrCodeUrl.t # "string"
  THEN [error |-> UnexpectedMessage, setResult |-> FALSE]
  ELSE [error |-> Null, setResult |-> TRUE]

(***************************************************************************)
(* backend/src/cloudinary.js.                                              *)
(***************************************************************************)
CredentialNames ==
  <<"CLOUDINARY_CLOUD_NAME", "CLOUDINARY_API_KEY", "CLOUDINARY_API_SECRET">>

\* The values an environment variable can have: unset, set to the empty
\* string, or set to some text.
EnvValues == {Absent, <<>>, <<"k">>, <<"s">>}

Envs == [ToSetOf(CredentialNames) -> EnvValues]

NoError == <<"no error">>

NoConfig == <<"not configured">>

\* assertEnv that lets an unset variable through and rejects only the empty
\* string.
assertEnvUnsetPasses(e, name) ==
  IF e[name] = <<>>
  THEN [threw |-> TRUE, error |-> <<"Missing env var: ", name>>,
        value |-> Absent]
  ELSE [threw |-> FALSE, error |-> NoError, value |-> e[name]]

\* function assertEnv(name)
assertEnv(e, name) ==
  IF e[name] = Absent \/ e[name] = <<>>
  THEN [threw |-> TRUE, error |-> <<"Missing env var: ", name>>,
        value |-> Absent]
  ELSE [threw |-> FALSE, error |-> NoError, value |-> e[name]]

\* The object literal passed to cloudinary.config: its three properties are
\* evaluated in order and the first assertEnv that throws ends the call.
ConfigArgument(e) ==
  LET a == [i \in 1..3 |-> assertEnv(e, CredentialNames[i])]
      failing == {i \in 1..3 : a[i].threw}
  IN IF failing = {}
     THEN [threw |-> FALSE, error |-> NoError,
           value |-> [cloud_name |-> a[1].value, api_key |-> a[2].value,
                      api_secret |-> a[3].value]]
     ELSE LET first == CHOOSE i \in failing : \A j \in failing : i <= j
          IN [threw |-> TRUE, error |-> a[first].error, value |-> NoConfig]

\* ensureConfigured without the early return: it configures on every call.
ensureConfiguredUnguarded(st, e) ==
  LET arg == ConfigArgument(e)
  IN IF arg.threw
     THEN [st EXCEPT !.error = arg.error]
     ELSE [configured |-> TRUE, cloudConfig |-> arg.value,
           configApplied |-> st.configApplied + 1, error |-> NoError]

\* function ensureConfigured(), on the module's state st; error is what the
\* call throws.
ensureConfiguredCall(st, e) ==
  IF st.configured THEN [st EXCEPT !.error = NoError]
  ELSE LET arg == ConfigArgument(e)
       IN IF arg.threw
          THEN [st EXCEPT !.error = arg.error]
          ELSE [configured |-> TRUE, cloudConfig |-> arg.value,
                configApplied |-> st.configApplied + 1, error |-> NoError]

ModuleState ==
  [configured |-> configured, cloudConfig |-> cloudConfig,
   configApplied |-> configApplied, error |-> NoError]

StorageInit ==
  /\ env \in Envs
  /\ configured = FALSE
  /\ cloudConfig = NoConfig
  /\ configApplied = 0
  /\ lastError = NoError
  /\ ensureCalls = 0
  /\ phase = "loaded"
  /\ handled = 0
  /\ corsRaw = Absent
  /\ corsPolicy = "none"
  /\ corsOptions = NoOptions
  /\ allowed = NoAllowed
  /\ reqPhase = "idle"
  /\ req = NoReq
  /\ decision = NoDecision
  /\ resp = NoResp
  /\ file = NoFile
  /\ isLoading = FALSE
  /\ error = Null
  /\ result = NoResult
  /\ calls = <<>>
  /\ settled = NoSettled
  /\ cleared = TRUE

\* The process starts: it configures the storage client before it listens,
\* and ends if that throws.
Startup ==
  /\ phase = "loaded"
  /\ LET r == ensureConfiguredCall(ModuleState, env)
     IN /\ configured' = r.configured
        /\ cloudConfig' = r.cloudConfig
        /\ configApplied' = r.configApplied
        /\ lastError' = r.error
        /\ phase' = IF r.error = NoError THEN "listening" ELSE "failed"
  /\ ensureCalls' = ensureCalls + 1
  /\ UNCHANGED <<env, handled>>
  /\ UNCHANGED <<corsVars, clientVars>>

\* Some caller in the running process calls cloudinary.ensureConfigured().
ensureConfigured ==
  /\ phase # "failed"
  /\ ensureCalls < MaxCalls
  /\ LET r == ensureConfiguredCall(ModuleState, env)
     IN /\ configured' = r.configured
        /\ cloudConfig' = r.cloudConfig
        /\ configApplied' = r.configApplied
        /\ lastError' = r.error
  /\ ensureCalls' = ensureCalls + 1
  /\ UNCHANGED <<env, phase, handled>>
  /\ UNCHANGED <<corsVars, clientVars>>

\* The listening process handles an upload request.
HandleUpload ==
  /\ phase = "listening"
  /\ handled < MaxUploads
  /\ handled' = handled + 1
  /\ UNCHANGED <<env, configured, cloudConfig, configApplied, lastError,
                 ensureCalls, phase>>
  /\ UNCHANGED <<corsVars, clientVars>>

StorageNext == Startup \/ ensureConfigured \/ HandleUpload

SpecStorage == StorageInit /\ [][StorageNext]_vars

(***************************************************************************)
(* The upload form: the handlers of Home.                                  *)
(***************************************************************************)
RemoveAt(seq, i) == SubSeq(seq, 1, i - 1) \o SubSeq(seq, i + 1, Len(seq))

ClientInit ==
  /\ file = NoFile
  /\ isLoading = FALSE
  /\ error = Null
  /\ result = NoResult
  /\ calls = <<>>
  /\ settled = NoSettled
  /\ cleared = TRUE
  /\ corsRaw = Absent
  /\ corsPolicy = "none"
  /\ corsOptions = NoOptions
  /\ allowed = NoAllowed
  /\ reqPhase = "idle"
  /\ req = NoReq
  /\ decision = NoDecision
  /\ resp = NoResp
  /\ env = [n \in ToSetOf(CredentialNames) |-> Absent]
  /\ configured = FALSE
  /\ cloudConfig = NoConfig
  /\ configApplied = 0
  /\ lastError = NoError
  /\ ensureCalls = 0
  /\ phase = "loaded"
  /\ handled = 0

\* function reset(); the previews and the file input's value it clears are
\* not part of the model.
reset ==
  /\ error' = Null
  /\ result' = NoResult
  /\ file' = NoFile
  /\ settled' = NoSettled
  /\ cleared' = TRUE
  /\ UNCHANGED <<isLoading, calls>>
  /\ UNCHANGED <<corsVars, storageVars>>

\* function onPickFile(nextFile: File | null)
onPickFile ==
  /\ \E nextFile \in Files \cup {NoFile} :
       /\ error' = Null
       /\ result' = NoResult
       /\ file' = nextFile
  /\ settled' = NoSettled
  /\ cleared' = TRUE
  /\ UNCHANGED <<isLoading, calls>>
  /\ UNCHANGED <<corsVars, storageVars>>

\* The invocation of onSubmit that has just called fetch: the file it posts,
\* where it waits, the response's status once known, and the number of
\* POST /upload requests it has sent.
NewCall(f) == [file |-> f, pc |-> "fetch", status |-> 0, posts |-> 1]

\* onSubmit with setIsLoading(true) ahead of the file check.
onSubmitLoadingFirst ==
  /\ file # NoFile => Len(calls) < MaxInflight
  /\ result' = NoResult
  /\ IF file = NoFile
     THEN /\ error' = MissingFileMessage
          /\ isLoading' = TRUE
          /\ UNCHANGED calls
     ELSE /\ error' = Null
          /\ isLoading' = TRUE
          /\ calls' = Append(calls, NewCall(file))
  /\ settled' = NoSettled
  /\ cleared' = FALSE
  /\ UNCHANGED file
  /\ UNCHANGED <<corsVars, storageVars>>

\* onSubmit without setResult(null).
onSubmitKeepsResult ==
  /\ file # NoFile => Len(calls) < MaxInflight
  /\ result' = result
  /\ IF file = NoFile
     THEN /\ error' = MissingFileMessage
          /\ UNCHANGED <<isLoading, calls>>
     ELSE /\ error' = Null
          /\ isLoading' = TRUE
          /\ calls' = Append(calls, NewCall(file))
  /\ settled' = NoSettled
  /\ cleared' = FALSE
  /\ UNCHANGED file
  /\ UNCHANGED <<corsVars, storageVars>>

\* async function onSubmit(e), up to its first await: without a file it
\* sets the error and returns, with a file it sends POST /upload.
onSubmit ==
  /\ file # NoFile => Len(calls) < MaxInflight
  /\ result' = NoResult
  /\ IF file = NoFile
     THEN /\ error' = MissingFileMessage
          /\ UNCHANGED <<isLoading, calls>>
     ELSE /\ error' = Null
          /\ isLoading' = TRUE
          /\ calls' = Append(calls, NewCall(file))
  /\ settled' = NoSettled
  /\ cleared' = FALSE
  /\ UNCHANGED file
  /\ UNCHANGED <<corsVars, storageVars>>

\* A catch block that sends the request again instead of giving up.
FetchRejectsRetrying ==
  /\ \E i \in 1..Len(calls) :
       /\ calls[i].pc = "fetch"
       /\ calls[i].posts < 3
       /\ calls' = [calls EXCEPT ![i].posts = @ + 1]
  /\ settled' = NoSettled
  /\ UNCHANGED <<file, isLoading, error, result, cleared>>
  /\ UNCHANGED <<corsVars, storageVars>>

\* fetch rejects: the catch block sets the error, the finally block ends
\* the loading.
FetchRejects ==
  /\ \E i \in 1..Len(calls), reason \in Rejections :
       /\ calls[i].pc = "fetch"
       /\ error' = IF reason.isError THEN <<reason.message>>
                   ELSE NetworkMessage
       /\ calls' = RemoveAt(calls, i)
       /\ settled' = [NoSettled EXCEPT !.kind = "rejected", !.reason = reason]
  /\ isLoading' = FALSE
  /\ UNCHANGED <<file, result, cleared>>
  /\ UNCHANGED <<corsVars, storageVars>>

\* fetch resolves with a response; onSubmit awaits response.json().
FetchResolves ==
  /\ \E i \in 1..Len(calls), status \in Statuses :
       /\ calls[i].pc = "fetch"
       /\ calls' = [calls EXCEPT ![i].pc = "json", ![i].status = status]
  /\ settled' = NoSettled
  /\ UNCHANGED <<file, isLoading, error, result, cleared>>
  /\ UNCHANGED <<corsVars, storageVars>>

\* response.json() settles (a rejection becomes null) and onSubmit runs to
\* its end, the finally block included.
JsonSettles ==
  /\ \E i \in 1..Len(calls), data \in DataValues :
       /\ calls[i].pc = "json"
       /\ LET r == afterJson(data, calls[i].status)
          IN /\ error' = IF r.error = Null THEN error ELSE r.error
             /\ result' = IF r.setResult THEN nextResult(data) ELSE result
       /\ settled' = [NoSettled EXCEPT !.kind = "response",
                                      !.status = calls[i].status,
                                      !.data = data]
       /\ calls' = RemoveAt(calls, i)
  /\ isLoading' = FALSE
  /\ UNCHANGED <<file, cleared>>
  /\ UNCHANGED <<corsVars, storageVars>>

ClientNext ==
  \/ reset
  \/ onPickFile
  \/ onSubmit
  \/ FetchRejects
  \/ FetchResolves
  \/ JsonSettles

SpecClient == ClientInit /\ [][ClientNext]_vars

\* The form is submitted through its submit button, which is disabled while
\* isLoading or while no file is selected.
submitForm ==
  /\ ~isLoading
  /\ file # NoFile
  /\ onSubmit

ClientFormNext ==
  \/ reset
  \/ onPickFile
  \/ submitForm
  \/ FetchRejects
  \/ FetchResolves
  \/ JsonSettles

\* The upload form as the rendered page drives it.
SpecClientForm == ClientInit /\ [][ClientFormNext]_vars

(***************************************************************************)
(* The CORS middleware: startup and requests.                              *)
(***************************************************************************)
CorsInit ==
  /\ corsRaw \in RawConfigs
  /\ corsPolicy = "none"
  /\ corsOptions = NoOptions
  /\ allowed = NoAllowed
  /\ reqPhase = "idle"
  /\ req = NoReq
  /\ decision = NoDecision
  /\ resp = NoResp
  /\ env = [n \in ToSetOf(CredentialNames) |-> Absent]
  /\ configured = FALSE
  /\ cloudConfig = NoConfig
  /\ configApplied = 0
  /\ lastError = NoError
  /\ ensureCalls = 0
  /\ phase = "loaded"
  /\ handled = 0
  /\ file = NoFile
  /\ isLoading = FALSE
  /\ error = Null
  /\ result = NoResult
  /\ calls = <<>>
  /\ settled = NoSettled
  /\ cleared = TRUE

createCorsMiddleware ==
  /\ corsPolicy = "none"
  /\ IF IsOpenPolicy(corsRaw)
     THEN /\ corsPolicy' = "open"
          /\ corsOptions' = OpenOptions
          /\ allowed' = allowed
     ELSE /\ corsPolicy' = "restricted"
          /\ corsOptions' = RestrictedOptions
          /\ allowed' = parseAllowedOrigins(corsRaw)
  /\ UNCHANGED <<corsRaw, reqPhase, req, decision, resp>>
  /\ UNCHANGED <<storageVars, clientVars>>

\* A request reaches the server.
ReceiveRequest ==
  /\ corsPolicy # "none"
  /\ reqPhase = "idle"
  /\ \E method \in Methods, origin \in Origins :
       req' = [method |-> method, origin |-> origin]
  /\ reqPhase' = "received"
  /\ UNCHANGED <<corsRaw, corsPolicy, corsOptions, allowed, decision, resp>>
  /\ UNCHANGED <<storageVars, clientVars>>

\* The middleware decides on the request's origin and answers.
HandleRequest ==
  /\ reqPhase = "received"
  /\ LET d == IF corsOptions.origin = "*"
              THEN [threw |-> FALSE, err |-> Null, allow |-> TRUE]
              ELSE originCallback(allowed, req.origin)
     IN /\ decision' = d
        /\ resp' = CorsResponse(corsOptions, req.method, d)
  /\ reqPhase' = "answered"
  /\ UNCHANGED <<corsRaw, corsPolicy, corsOptions, allowed, req>>
  /\ UNCHANGED <<storageVars, clientVars>>

\* The request is over; nothing of it is kept.
FinishRequest ==
  /\ reqPhase = "answered"
  /\ reqPhase' = "idle"
  /\ req' = NoReq
  /\ decision' = NoDecision
  /\ resp' = NoResp
  /\ UNCHANGED <<corsRaw, corsPolicy, corsOptions, allowed>>
  /\ UNCHANGED <<storageVars, clientVars>>

CorsNext ==
  \/ createCorsMiddleware
  \/ ReceiveRequest
  \/ HandleRequest
  \/ FinishRequest

SpecCors == CorsInit /\ [][CorsNext]_vars

(***************************************************************************)
(* Properties of the origin policy.                                        *)
(***************************************************************************)
Answered == reqPhase = "answered"

HasOrigin == req.origin # Absent

\* The origin is an exact token or a compiled pattern matches it.
OriginListed ==
  \/ req.origin \in allowed.exact
  \/ \E i \in 1..Len(allowed.wildcards) :
       RegExpTest(allowed.wildcards[i], req.origin)

\* The four decisions the specification lists for
\* "https://a.com,https://*.b.com".
ExampleDecisions ==
  (Answered /\ corsRaw = ExampleConfig) =>
     /\ req.origin = OriginA => decision.allow
     /\ req.origin = OriginXB => decision.allow
     /\ req.origin = OriginEvil => ~decision.allow
     /\ req.origin = OriginHttp => ~decision.allow

\* C1 as stated: under a restricted policy the origin is allowed if and only
\* if it is absent, is an exact token or is matched by a wildcard pattern,
\* and the four example decisions hold.
C1_AsStated ==
  /\ (Answered /\ corsPolicy = "restricted") =>
       (decision.allow <=> (~HasOrigin \/ OriginListed))
  /\ ExampleDecisions

\* C1 amended: under a restricted policy the origin is allowed if and only
\* if it is absent or the empty string, is an exact token or is matched by a
\* wildcard pattern, and the four example decisions hold.
C1_Decision ==
  /\ (Answered /\ corsPolicy = "restricted") =>
       (decision.allow <=>
          (~HasOrigin \/ req.origin = <<>> \/ OriginListed))
  /\ ExampleDecisions

\* The look-alike origin "https://a.com.evil.com" has been denied under the
\* example configuration.
C1_Witness ==
  /\ Answered
  /\ corsRaw = ExampleConfig
  /\ req.origin = OriginEvil
  /\ ~decision.allow

\* C2: whatever the configuration, a request without an Origin header is
\* allowed.
C2_NoOriginAllowed ==
  (Answered /\ ~HasOrigin) =>
     (decision.allow /\ ~decision.threw /\ decision.err = Null)

\* A request without Origin has been allowed by a restricted policy whose
\* configuration yields no token.
C2_Witness ==
  /\ Answered
  /\ ~HasOrigin
  /\ corsPolicy = "restricted"
  /\ allowed = NoAllowed
  /\ decision.allow

\* C3: with the configuration absent, empty or "*", every origin is allowed
\* and no exact set or wildcard pattern was built or consulted.
C3_OpenAllowsAll ==
  (Answered /\ corsRaw \in {Absent, <<>>, Star}) =>
     /\ decision.allow
     /\ corsPolicy = "open"
     /\ allowed = NoAllowed

\* An arbitrary origin has been allowed under the empty configuration.
C3_Witness ==
  /\ Answered
  /\ corsRaw = <<>>
  /\ req.origin = OriginEvil
  /\ decision.allow

\* The meaning the specification gives a wildcard token: "*" stands for any
\* sequence of characters, every other character for itself, and the whole
\* string has to be consumed.
RECURSIVE GlobMatch(_, _)
GlobMatch(token, s) ==
  IF token = <<>> THEN s = <<>>
  ELSE IF Head(token) = "*"
       THEN \E k \in 0..Len(s) :
              GlobMatch(Tail(token), SubSeq(s, k + 1, Len(s)))
       ELSE /\ s # <<>>
            /\ Head(s) = Head(token)
            /\ GlobMatch(Tail(token), Tail(s))

\* The configuration is one wildcard token and nothing else.
SingleWildcardConfig ==
  /\ corsRaw # Absent
  /\ Includes(corsRaw, "*")
  /\ \A i \in 1..Len(corsRaw) : corsRaw[i] \notin (WhiteSpace \cup {","})

\* C4: a wildcard token's compiled pattern matches an origin exactly when
\* the token, read with "*" as any sequence and every other character as
\* itself, matches the entire origin.
C4_WildcardWholeMatch ==
  (/\ Answered
   /\ corsPolicy = "restricted"
   /\ SingleWildcardConfig
   /\ HasOrigin
   /\ req.origin # <<>>) =>
     (decision.allow <=> GlobMatch(corsRaw, req.origin))

\* The token "*.a" has denied "bba": the dot is literal.
C4_Witness ==
  /\ Answered
  /\ corsRaw = <<"*", ".", "a">>
  /\ req.origin = <<"b", "b", "a">>
  /\ ~decision.allow

\* C5: under a restricted policy the origin callback completes with a null
\* error and a boolean decision, and an origin that nothing matches is
\* reported as denied.
C5_CallbackNeverFails ==
  (Answered /\ corsPolicy = "restricted") =>
     /\ ~decision.threw
     /\ decision.err = Null
     /\ decision.allow \in BOOLEAN
     /\ (HasOrigin /\ req.origin # <<>> /\ ~OriginListed) => ~decision.allow

\* An origin that nothing matches has been denied without an error.
C5_Witness ==
  /\ Answered
  /\ corsPolicy = "restricted"
  /\ req.origin = OriginHttp
  /\ ~decision.allow
  /\ decision.err = Null

\* The options that do not depend on the policy, and the answer to an
\* allowed preflight request built from them.
CommonOptions(methods) ==
  /\ corsPolicy # "none" =>
       /\ corsOptions.optionsSuccessStatus = 204
       /\ ToSetOf(corsOptions.methods) = methods
       /\ corsOptions.allowedHeaders = <<"Content-Type">>
       /\ corsOptions.maxAge = 86400
  /\ (Answered /\ req.method = "OPTIONS" /\ decision.allow) =>
       /\ resp.ended
       /\ resp.status = 204
       /\ ToSetOf(resp.allowMethods) = methods
       /\ resp.allowHeaders = <<"Content-Type">>
       /\ resp.maxAge = 86400

\* C10 as stated: under both policies preflight succeeds with 204, the
\* allowed methods are GET and POST and nothing else, the only allowed
\* request header is Content-Type and the cache time is 86400 seconds.
C10_AsStated == CommonOptions({"GET", "POST"})

\* C10 amended: under both policies preflight succeeds with 204, the allowed
\* methods are GET, POST and OPTIONS, the only allowed request header is
\* Content-Type and the cache time is 86400 seconds.
C10_SameOptions == CommonOptions({"GET", "POST", "OPTIONS"})

\* A preflight request has been answered under the restricted policy.
C10_Witness ==
  /\ Answered
  /\ corsPolicy = "restricted"
  /\ req.method = "OPTIONS"
  /\ decision.allow
  /\ resp.status = 204

(***************************************************************************)
(* Properties of the storage configuration.                                *)
(***************************************************************************)
\* C6: cloudinary.config is applied at most once, and once a call of
\* ensureConfigured has succeeded no later step changes the configuration.
C6_ConfiguredOnce ==
  /\ [](configApplied <= 1)
  /\ [][configured =>
          /\ configured'
          /\ cloudConfig' = cloudConfig
          /\ configApplied' = configApplied
          /\ lastError' = NoError]_vars

\* ensureConfigured has been called three times, the configuration was
\* applied by the first call only.
C6_Witness ==
  /\ configured
  /\ ensureCalls = 3
  /\ configApplied = 1

\* A credential is missing: unset, or set to the empty string.
Missing(n) == env[n] = Absent \/ env[n] = <<>>

AnyMissing == \E i \in 1..3 : Missing(CredentialNames[i])

\* The first missing credential in the order the configuration reads them.
FirstMissing ==
  CredentialNames[CHOOSE i \in 1..3 :
                    /\ Missing(CredentialNames[i])
                    /\ \A j \in 1..(i - 1) : ~Missing(CredentialNames[j])]

SettledNotOk == settled.kind = "response" /\ ~Ok(settled.status)

\* The message the priority order of the specification selects, or the
\* generic message that starts with the given text.
MessageByPriority(data, status, genericText) ==
  LET generic == <<genericText, ToString(status), ")">>
  IN IF data.t \notin {"object", "array"} THEN generic
     ELSE IF data.error.t = "string" THEN <<data.error.v>>
     ELSE IF data.error.t = "object" /\ data.error.message.t = "string"
          THEN <<data.error.message.v>>
     ELSE IF data.message.t = "string" THEN <<data.message.v>>
     ELSE generic

\* C8 as stated: after a non-2xx response the error is the top-level error
\* string, else the nested error.message string, else the top-level message
\* string, else the generic "Upload failed (<status>)".
C8_AsStated ==
  SettledNotOk =>
    error = MessageByPriority(settled.data, settled.status, "Upload failed (")

\* C8 amended: after a non-2xx response the error is the top-level error
\* string, else the nested error.message string, else the top-level message
\* string, else the generic "Erreur upload (<status>)".
C8_ErrorPriority ==
  SettledNotOk =>
    error = MessageByPriority(settled.data, settled.status, "Erreur upload (")

\* A 500 response whose body has a nested error.message and a top-level
\* message has set the nested one.
C8_Witness ==
  /\ settled.kind = "response"
  /\ settled.status = 500
  /\ settled.data.error = ErrObject(Str("EM"))
  /\ settled.data.message = Str("M")
  /\ error = <<"EM">>

\* A response lacks publicFileUrl or qrCodeUrl as a string.
FieldsMissing(st) ==
  \/ st.data.t # "object"
  \/ st.data.publicFileUrl.t # "string"
  \/ st.data.qrCodeUrl.t # "string"

\* A result is set only by a step that processes a response of the given
\* kind and builds the result from that response.
ResultOnlyFrom(good(_)) ==
  (result' # result /\ result'.present) =>
     /\ settled'.kind = "response"
     /\ good(settled')
     /\ ~FieldsMissing(settled')
     /\ result'.publicFileUrl = settled'.data.publicFileUrl
     /\ result'.qrCodeUrl = settled'.data.qrCodeUrl

AnyStatus(st) == TRUE

OkStatus(st) == Ok(st.status)

\* C9 as stated: a response that lacks publicFileUrl or qrCodeUrl, whatever
\* its status, sets the unexpected-response error and no result, and a
\* result is set only from a response that has both as strings.
C9_AsStated ==
  [][/\ (settled'.kind = "response" /\ FieldsMissing(settled')) =>
          (error' = UnexpectedMessage /\ result' = result)
     /\ ResultOnlyFrom(AnyStatus)]_vars

\* C9 amended: a response that lacks publicFileUrl or qrCodeUrl sets no
\* result, whatever its status; it sets the unexpected-response error if
\* the status is 2xx and the message extracted from the body otherwise; a
\* result is set only from a 2xx response that has both as strings.
C9_MissingFields ==
  [][/\ (settled'.kind = "response" /\ FieldsMissing(settled')) =>
          /\ result' = result
          /\ Ok(settled'.status) => error' = UnexpectedMessage
          /\ ~Ok(settled'.status) =>
               error' = extractErrorMessage(settled'.data, settled'.status)
     /\ ResultOnlyFrom(OkStatus)]_vars

\* A 200 response without qrCodeUrl has set the unexpected-response error
\* and no result.
C9_Witness ==
  /\ settled.kind = "response"
  /\ settled.status = 200
  /\ settled.data.publicFileUrl = Str("P")
  /\ settled.data.qrCodeUrl = Undef
  /\ error = UnexpectedMessage
  /\ ~result.present

\* The POST /upload requests sent by the invocations of onSubmit that are
\* running.
RECURSIVE PostsOf(_)
PostsOf(cs) == IF cs = <<>> THEN 0 ELSE Head(cs).posts + PostsOf(Tail(cs))

\* The step is the start of an onSubmit with a file selected: one new
\* invocation that has sent one request.
SubmitStartsRequest ==
  /\ file # NoFile
  /\ calls' = Append(calls, [file |-> file, pc |-> "fetch", status |-> 0,
                             posts |-> 1])

\* C11: no invocation of onSubmit ever has more than one POST /upload to its
\* name, whatever the outcome; a step sends a request only if it is the start
\* of an onSubmit with a file selected, and then it sends exactly one; a step
\* taken with no file selected sends none.
C11_NoRetry ==
  /\ [](\A i \in 1..Len(calls) : calls[i].posts = 1)
  /\ [][/\ (PostsOf(calls') > PostsOf(calls) \/ Len(calls') > Len(calls)) =>
            SubmitStartsRequest
        /\ file = NoFile =>
            (PostsOf(calls') <= PostsOf(calls) /\ Len(calls') <= Len(calls))
        /\ settled'.kind # "none" =>
            (PostsOf(calls') = PostsOf(calls) - 1
               /\ Len(calls') = Len(calls) - 1)]_vars

\* A network failure has ended an onSubmit: the error is set and no request
\* is left in flight.
C11_Witness ==
  /\ settled.kind = "rejected"
  /\ error = <<"Failed to fetch">>
  /\ calls = <<>>
  /\ ~isLoading

(***************************************************************************)
(* Properties of the configuration's tokens.                               *)
(***************************************************************************)
\* The pieces of the configuration between its commas: the comma-free
\* stretches that begin at the start or after a comma and end at the end or
\* before a comma.
PiecesOf(raw) ==
  {SubSeq(raw, i, j) : <<i, j>> \in
     {ij \in (1..(Len(raw) + 1)) \X (0..Len(raw)) :
        /\ ij[1] <= ij[2] + 1
        /\ \A k \in ij[1]..ij[2] : raw[k] # ","
        /\ (ij[1] = 1 \/ raw[ij[1] - 1] = ",")
        /\ (ij[2] = Len(raw) \/ raw[ij[2] + 1] = ",")}}

\* A piece without the whitespace around it.
Stripped(piece) ==
  LET inked == {k \in 1..Len(piece) : piece[k] \notin WhiteSpace}
  IN IF inked = {} THEN <<>>
     ELSE SubSeq(piece,
                 CHOOSE k \in inked : \A m \in inked : k <= m,
                 CHOOSE k \in inked : \A m \in inked : k >= m)

\* The tokens the specification gives a configuration: its pieces, trimmed,
\* the empty ones left out.
TokensOf(raw) == {Stripped(piece) : piece \in PiecesOf(raw)} \ {<<>>}

StarTokensOf(raw) == {t \in TokensOf(raw) : Includes(t, "*")}

PlainTokensOf(raw) == {t \in TokensOf(raw) : ~Includes(t, "*")}

\* Some token admits the origin: a plain token that equals it or a wildcard
\* token that matches all of it.
TokenAdmits(raw, origin) ==
  \/ origin \in PlainTokensOf(raw)
  \/ \E t \in StarTokensOf(raw) : GlobMatch(t, origin)

\* The decision depends on the configuration through its tokens only, a
\* token with "*" is compiled into the wildcard list and nowhere else, a
\* token without is put into the exact set and nowhere else; sent says which
\* requests count as carrying an Origin, and those are denied when the
\* configuration yields no token.
TokenPolicy(sent) ==
  (Answered /\ corsPolicy = "restricted") =>
    /\ decision.allow <=>
         (~HasOrigin \/ req.origin = <<>> \/ TokenAdmits(corsRaw, req.origin))
    /\ allowed.exact = PlainTokensOf(corsRaw)
    /\ ToSetOf(allowed.wildcards) =
         {toWildcardRegExp(t) : t \in StarTokensOf(corsRaw)}
    /\ (TokensOf(corsRaw) = {} /\ sent) => ~decision.allow

\* C12 as stated: whitespace and commas around the tokens never change the
\* decision, wildcard tokens go only to the wildcard list and the others
\* only to the exact set, and a configuration without tokens denies every
\* request that carries an Origin header.
C12_AsStated == TokenPolicy(HasOrigin)

\* C12 amended: whitespace and commas around the tokens never change the
\* decision, wildcard tokens go only to the wildcard list and the others
\* only to the exact set, and a configuration without tokens denies every
\* request that carries a non-empty Origin header.
C12_Tokens == TokenPolicy(HasOrigin /\ req.origin # <<>>)

\* Under the configuration " a," the origin "a" has been allowed.
C12_Witness ==
  /\ Answered
  /\ corsRaw = <<" ", "a", ",">>
  /\ req.origin = <<"a">>
  /\ allowed = [exact |-> {<<"a">>}, wildcards |-> <<>>]
  /\ decision.allow

\* C13: after reset or onPickFile has run, error and result stay null until
\* the next onSubmit begins, also when a request that was in flight
\* completes in between.
C13_StaysCleared == cleared => (error = Null /\ ~result.present)

\* C14: at most one upload request is in flight at a time, and error and
\* result are never both non-null.
C14_ErrorOrResult ==
  /\ Len(calls) <= 1
  /\ ~(error # Null /\ result.present)

\* An upload has succeeded: the result is set and the error is null.
C14_Witness ==
  /\ settled.kind = "response"
  /\ result.present
  /\ error = Null

\* The step is the start of an onSubmit after reset or onPickFile.
SubmitBegins == cleared /\ ~cleared'

\* C15: isLoading is true only while an upload request is in flight; the
\* step that completes a request, whatever its outcome, sets isLoading to
\* false; an onSubmit with a file sets it to true and starts a request; an
\* onSubmit without a file sets the missing-file error and leaves isLoading
\* and the requests in flight as they are.
C15_Loading ==
  /\ [](isLoading => calls # <<>>)
  /\ [][/\ (settled'.kind # "none" \/ Len(calls') < Len(calls)) =>
            (settled'.kind # "none" /\ ~isLoading'
               /\ Len(calls') = Len(calls) - 1)
        /\ (SubmitBegins /\ file # NoFile) =>
            (isLoading' /\ Len(calls') = Len(calls) + 1)
        /\ (SubmitBegins /\ file = NoFile) =>
            (error' = MissingFileMessage /\ isLoading' = isLoading
               /\ calls' = calls)
        /\ (error # MissingFileMessage /\ error' = MissingFileMessage) =>
            (file = NoFile /\ isLoading' = isLoading /\ calls' = calls)
        /\ (~isLoading /\ isLoading') => Len(calls') = Len(calls) + 1]_vars

\* An onSubmit without a file has set the missing-file error and nothing is
\* loading.
C15_Witness ==
  /\ error = MissingFileMessage
  /\ file = NoFile
  /\ ~isLoading
  /\ calls = <<>>

====
